---- MODULE Spec2Model ----
(***************************************************************************)
(* Geofence attendance application: the employee home screen (location     *)
(* sampling, geofence classification, check-in / check-out), the admin's   *)
(* geofence assignment on the profile screen, and the attendance history   *)
(* query, over the device-local key-value store.                           *)
(*                                                                         *)
(* Numbers.  JavaScript numbers are kept in fixed point: a coordinate or a *)
(* radius x is the integer x * Scale (four decimals); a distance in km is  *)
(* the integer km * Scale (0.1 m).  NaN is a separate value.  Clock values *)
(* are minutes of UTC time; totalHours is kept in hundredths of an hour.   *)
(***************************************************************************)
EXTENDS Integers, Sequences, FiniteSets, TLC

VARIABLES
    users,              \* AsyncStorage 'users': sequence of user records
    att,                \* AsyncStorage 'attendance_<email>_<date>' entries
    employeeLocations,  \* AsyncStorage 'employeeLocations': email -> snapshot
    user,               \* AuthContext user (the logged-in user) or NoUser
    home,               \* HomeScreen: "off" | "loading" | "shown"
    locationStatus,     \* HomeScreen state: "inside" | "outside" | "unknown"
    attendanceStatus,   \* HomeScreen state: "true" | "false" | "null"
    fetchingLocation,   \* HomeScreen state
    notice,             \* the last Alert.alert shown: [title, text]
    ha,                 \* the handleAttendance invocation in flight
    rl,                 \* the refreshLocation invocation in flight
    clock,              \* device time, minutes UTC
    tz,                 \* device time-zone offset, minutes east of UTC
    position,           \* where the device really is
    attendanceHistory,  \* AttendanceScreen state
    filter,             \* AttendanceScreen state: "all" | "week" | "month"
    selectedDept,       \* AttendanceScreen state
    histPc,             \* AttendanceScreen.fetchHistory: "init"|"done"|"failed"
    evalIn,             \* evaluator harness: the sample and geofence applied
    evalOut,            \* evaluator harness: the classification obtained
    invitations,        \* AuthContext: the stored admin invitations, by token
    grants,             \* AuthContext: the permissions each role holds
    auth,               \* the login / register screens and their form state
    profile,            \* ProfileScreen state (invite and role-request parts)
    rejectedAt          \* history: when an admin last rejected a user's
                        \* request (the program keeps no such record)

vars == <<users, att, employeeLocations, user, home, locationStatus,
          attendanceStatus, fetchingLocation, notice, ha, rl, clock, tz,
          position, attendanceHistory, filter, selectedDept, histPc,
          evalIn, evalOut, invitations, grants, auth, profile, rejectedAt>>

storeVars == <<users, att, employeeLocations>>
homeVars  == <<home, locationStatus, attendanceStatus, fetchingLocation,
               notice, ha, rl>>
envVars   == <<clock, tz, position>>
histVars  == <<attendanceHistory, filter, selectedDept, histPc>>
evalVars  == <<evalIn, evalOut>>
acctVars  == <<invitations, grants, auth, profile, rejectedAt>>

----------------------------------------------------------------------------
(* Bounds of the model *)

MaxTicks == 2           \* how many times the clock advances in a run
MaxLedger == 2          \* how many stored records the history query is fed
MaxTokens == 1          \* how many invitations are issued in a run
MaxUsers == 3           \* how many user records the store holds in a run

Scale == 10 ^ 4         \* fixed-point resolution of coordinates and metres
MinutesPerDay == 24 * 60
StartClock == 2 * MinutesPerDay + 17 * 60    \* day 2, 17:00 UTC
ClockSteps == {510}                          \* 8h30, in minutes
ZoneOffsets == {-480, 0, 330}                \* UTC-8, UTC, UTC+5:30

----------------------------------------------------------------------------
(* JavaScript values as they sit in the JSON store *)

Undef == [k |-> "undef", s |-> << >>, n |-> 0]
Str(cs) == [k |-> "str", s |-> cs, n |-> 0]
Num(x) == [k |-> "num", s |-> << >>, n |-> x]

NaN == [nan |-> TRUE, v |-> 0]
Val(x) == [nan |-> FALSE, v |-> x]

Digits == {"0", "1", "2", "3", "4", "5", "6", "7", "8", "9"}

DigitVal(c) ==
    CASE c = "0" -> 0 [] c = "1" -> 1 [] c = "2" -> 2 [] c = "3" -> 3
      [] c = "4" -> 4 [] c = "5" -> 5 [] c = "6" -> 6 [] c = "7" -> 7
      [] c = "8" -> 8 [] c = "9" -> 9

RECURSIVE SkipSpaces(_)
SkipSpaces(cs) ==
    IF cs # << >> /\ Head(cs) = " " THEN SkipSpaces(Tail(cs)) ELSE cs

\* the longest prefix of decimal digits of cs
RECURSIVE DigitPrefix(_)
DigitPrefix(cs) ==
    IF cs # << >> /\ Head(cs) \in Digits
    THEN <<Head(cs)>> \o DigitPrefix(Tail(cs))
    ELSE << >>

RECURSIVE DigitsValue(_, _)
DigitsValue(ds, acc) ==
    IF ds = << >> THEN acc
    ELSE DigitsValue(Tail(ds), 10 * acc + DigitVal(Head(ds)))

\* the first four fraction digits as a number of 1/Scale units
FractionValue(ds) ==
    LET d(i) == IF i <= Len(ds) THEN DigitVal(ds[i]) ELSE 0
    IN  1000 * d(1) + 100 * d(2) + 10 * d(3) + d(4)

\* parseFloat of a string: leading blanks, an optional sign, digits, an
\* optional fraction; NaN when no digit is found; trailing text is ignored
ParseFloatStr(cs) ==
    LET t == SkipSpaces(cs)
        signed == t # << >> /\ Head(t) \in {"-", "+"}
        neg == t # << >> /\ Head(t) = "-"
        body == IF signed THEN Tail(t) ELSE t
        ip == DigitPrefix(body)
        rest == SubSeq(body, Len(ip) + 1, Len(body))
        fp == IF rest # << >> /\ Head(rest) = "."
              THEN DigitPrefix(Tail(rest)) ELSE << >>
        mag == Scale * DigitsValue(ip, 0) + FractionValue(fp)
    IN  IF ip = << >> /\ fp = << >> THEN NaN
        ELSE Val(IF neg THEN -mag ELSE mag)

\* parseFloat of any stored value: a number is itself, undefined is NaN
parseFloat(x) ==
    CASE x.k = "num" -> Val(x.n)
      [] x.k = "str" -> ParseFloatStr(x.s)
      [] OTHER -> NaN

isNaN(y) == y.nan

----------------------------------------------------------------------------
(* Texts typed into forms, as sequences of characters *)

TxtLat == <<"3", "7", ".", "7", "7", "4", "9">>
TxtLon == <<"-", "1", "2", "2", ".", "4", "1", "9", "4">>
Txt100 == <<"1", "0", "0">>
Txt50 == <<"5", "0">>
Txt0 == <<"0">>
TxtNeg == <<"-", "5", "0">>
TxtBad == <<"a", "b", "c">>
TxtUnit == <<"5", "0", "m">>
TxtEmpty == << >>

\* the default office of earlier releases, which cleanupDefaultOffice looks
\* for: 16.732237531322607, 74.24010578614681 kept to four decimals
DefaultOfficeLat == 167322
DefaultOfficeLon == 742401
DefaultRadius == 100

----------------------------------------------------------------------------
(* Users and their assigned location *)

NoLocation ==
    [present |-> FALSE, name |-> Undef, latitude |-> Undef,
     longitude |-> Undef, radius |-> Undef]

\* the object literal {} that cleanupDefaultOffice stores
EmptyLocation ==
    [present |-> TRUE, name |-> Undef, latitude |-> Undef,
     longitude |-> Undef, radius |-> Undef]

LegacyLocation ==
    [present |-> TRUE, name |-> Str(<<"O">>),
     latitude |-> Num(DefaultOfficeLat), longitude |-> Num(DefaultOfficeLon),
     radius |-> Num(DefaultRadius * Scale)]

\* a user record as registration leaves it: no role request made, none
\* rejected (lastRejection 0)
MkUser(id, email, name, dept, role, al) ==
    [id |-> id, email |-> email, name |-> name, department |-> dept,
     role |-> role, assignedLocation |-> al, roleChangeRequested |-> FALSE,
     lastRejection |-> 0]

NoUser == MkUser("", "", "", "", "", NoLocation)

Employees == {"e1", "e2"}
Emails == Employees \cup {"admin"}

\* the effective geofence of the HomeScreen: null without an assigned
\* location, else the parsed centre and `parseFloat(radius) || 100`
NullGeofence ==
    [isNull |-> TRUE, latitude |-> NaN, longitude |-> NaN, radius |-> NaN]

OrDefaultRadius(y) ==
    IF y.nan \/ y.v = 0 THEN Val(DefaultRadius * Scale) ELSE y

\* a user without an assigned location given the default office
geofenceOfDefaultOffice(al) ==
    [isNull |-> FALSE,
     latitude |-> IF al.present THEN parseFloat(al.latitude)
                  ELSE Val(DefaultOfficeLat),
     longitude |-> IF al.present THEN parseFloat(al.longitude)
                   ELSE Val(DefaultOfficeLon),
     radius |-> OrDefaultRadius(parseFloat(al.radius))]

geofenceOf(al) ==
    IF al.present
    THEN [isNull |-> FALSE,
          latitude |-> parseFloat(al.latitude),
          longitude |-> parseFloat(al.longitude),
          radius |-> OrDefaultRadius(parseFloat(al.radius))]
    ELSE NullGeofence

geofence == IF user # NoUser THEN geofenceOf(user.assignedLocation)
            ELSE NullGeofence

----------------------------------------------------------------------------
(* Positions and the haversine distance *)

PtC == [lat |-> 377749, lon |-> -1224194]      \* 37.7749, -122.4194
PtN5 == [lat |-> 377754, lon |-> -1224194]     \* 0.0005 degrees north of it
PtN10 == [lat |-> 377759, lon |-> -1224194]    \* 0.0010 degrees north of it
PtD == [lat |-> DefaultOfficeLat, lon |-> DefaultOfficeLon]

Positions == {PtC, PtD}

Abs(x) == IF x < 0 THEN -x ELSE x

\* R * (pi / 180) in km per degree, times Scale: 6371 * 0.0174532925...
KmPerDegree == 1111949

\* calculateDistance, in km * Scale.  On one meridian (dLon = 0) the formula
\* reduces to a = sin^2(dLat/2), c = |dLat| and distance = R * |dLat|; the
\* two far-apart centres of the model are evaluated from the full formula.
calculateDistance(lat1, lon1, lat2, lon2) ==
    IF lat1.nan \/ lon1.nan \/ lat2.nan \/ lon2.nan THEN NaN
    ELSE IF lon1.v = lon2.v
    THEN Val((Abs(lat2.v - lat1.v) * KmPerDegree + (Scale \div 2)) \div Scale)
    ELSE IF {lat1.v, lat2.v} = {PtC.lat, PtD.lat} THEN Val(137088576)
    ELSE IF {lat1.v, lat2.v} = {PtN5.lat, PtD.lat} THEN Val(137088051)
    ELSE IF {lat1.v, lat2.v} = {PtN10.lat, PtD.lat} THEN Val(137087526)
    ELSE NaN

\* the comparison with the radius left in metres
WithinRadiusMetres(distance, radius) ==
    /\ ~distance.nan
    /\ ~radius.nan
    /\ distance.v <= radius.v

\* `distance <= geofence.radius / 1000`: false when either side is NaN
WithinRadius(distance, radius) ==
    /\ ~distance.nan
    /\ ~radius.nan
    /\ distance.v <= radius.v \div 1000

\* the synchronous part of updateLocationStatus: the status it sets
LocationStatusOf(p, g) ==
    IF g.isNull THEN "unknown"
    ELSE IF WithinRadius(calculateDistance(Val(p.lat), Val(p.lon),
                                           g.latitude, g.longitude), g.radius)
         THEN "inside" ELSE "outside"

\* the cached status taken for the answer
IsInsideCached(p, g) == locationStatus = "inside"

\* the isInside that handleAttendance computes for its own sample
IsInsideFresh(p, g) ==
    WithinRadius(calculateDistance(Val(p.lat), Val(p.lon),
                                   g.latitude, g.longitude), g.radius)

----------------------------------------------------------------------------
(* The stores *)

\* the first element of a sequence satisfying a test, as a set of indices
IndexOfEmail(us, e) == {i \in 1..Len(us) : us[i].email = e}
IndexOfId(us, id) == {i \in 1..Len(us) : us[i].id = id}
FirstOf(S) == CHOOSE i \in S : \A j \in S : i <= j

Range(f) == {f[i] : i \in DOMAIN f}

\* `new Date().toISOString().split('T')[0]`: the UTC calendar day
ISODate(t) == t \div MinutesPerDay

\* the calendar day the device shows
LocalDate(t, z) == (t + z) \div MinutesPerDay

AttendanceKey(email, date) == [email |-> email, date |-> date]

NoPoint == [lat |-> 0, lon |-> 0]

\* AsyncStorage.getItem / setItem on the attendance entries
HasItem(store, key) == key \in DOMAIN store
SetItem(store, key, value) ==
    [k \in DOMAIN store \cup {key} |-> IF k = key THEN value ELSE store[k]]

\* calculateHours: (end - start) / 3,600,000 ms to two decimals, in
\* hundredths of an hour; the clock counts minutes, so the quotient 5m/3 is
\* never half-way between two hundredths
calculateHours(startTime, endTime) ==
    LET diffMin == endTime - startTime
    IN  (10 * diffMin + 3) \div 6

checkInData(u, today, currentTime, sample) ==
    [date |-> today, email |-> u.email, name |-> u.name,
     department |-> u.department, checkInTime |-> currentTime,
     checkInLocation |-> sample, hasCheckOut |-> FALSE, checkOutTime |-> 0,
     checkOutLocation |-> NoPoint, totalHours |-> 0]

\* the check-out that also takes the sample for the place of the check-in
updatedDataMovesCheckIn(storedData, currentTime, sample) ==
    [storedData EXCEPT
        !.hasCheckOut = TRUE,
        !.checkOutTime = currentTime,
        !.checkOutLocation = sample,
        !.checkInLocation = sample,
        !.totalHours = calculateHours(storedData.checkInTime, currentTime)]

\* `{...storedData, checkOutTime, checkOutLocation, totalHours}`
updatedData(storedData, currentTime, sample) ==
    [storedData EXCEPT
        !.hasCheckOut = TRUE,
        !.checkOutTime = currentTime,
        !.checkOutLocation = sample,
        !.totalHours = calculateHours(storedData.checkInTime, currentTime)]

\* the entry updateLocationStatus stores for an employee (its timestamp is
\* not kept in the model)
SavedLocations(locs, u, sample, g, now) ==
    IF g.isNull \/ u.role # "employee" THEN locs
    ELSE [locs EXCEPT ![u.email] =
            [known |-> TRUE, latitude |-> sample.lat,
             longitude |-> sample.lon,
             isInside |-> IsInsideFresh(sample, g)]]

NoSnapshot ==
    [known |-> FALSE, latitude |-> 0, longitude |-> 0, isInside |-> FALSE]

----------------------------------------------------------------------------
(* Accounts: the state of the login, register and profile screens *)

InviteLifetime == 48 * 60       \* minutes an invitation stays valid
RequestCooldown == 24 * 60      \* minutes before a rejected user may re-ask
DaySteps == {25 * 60}           \* the clock jumps of the role workflows

AssignRoles == "assign:roles"

Roles == {"admin", "employee"}

\* every admin may assign roles, no employee may
DefaultGrants == [r \in Roles |-> IF r = "admin" THEN {AssignRoles} ELSE {}]

\* AuthContext.hasPermission for the current user
hasPermission(u, permission) ==
    /\ u.role \in Roles
    /\ permission \in grants[u.role]

\* the register form; inviteToken 0 is the empty text, n > 0 the text of
\* token n
EmptyForm ==
    [email |-> "", password |-> "", confirmPassword |-> "", name |-> "",
     department |-> "", inviteToken |-> 0]

NoToken == [given |-> FALSE, text |-> 0]

NoCall ==
    [email |-> "", password |-> "",
     profile |-> [name |-> "", department |-> ""], token |-> NoToken]

\* the login screen as mounted: nothing typed, no registration in flight
IdleAuth ==
    [screen |-> "login", formState |-> EmptyForm, hasInvitation |-> FALSE,
     pc |-> "idle", call |-> NoCall]

\* no handleSaveGeofence in flight (isSaving false), and, in flight, the
\* users it read and the assignment it is about to write
NoForm ==
    [name |-> Undef, latitude |-> Undef, longitude |-> Undef,
     radius |-> Undef]

IdleSave == [pc |-> "idle", users |-> << >>, email |-> "", form |-> NoForm]

\* no cleanupDefaultOffice in flight, and, in flight, the users it read
IdleCleanup == [pc |-> "idle", users |-> << >>]

IdleProfile ==
    [mounted |-> FALSE, inviteModal |-> FALSE, inviteEmail |-> "",
     generatedToken |-> 0, requestsModal |-> FALSE, roleRequests |-> << >>,
     hasRequestedAdmin |-> FALSE, canRequest |-> FALSE,
     save |-> IdleSave, cleanup |-> IdleCleanup]

\* what checkRequestStatus leaves in hasRequestedAdmin
checkRequestStatus(pr, us, u) ==
    LET found == IndexOfId(us, u.id)
    IN  \/ pr.hasRequestedAdmin
        \/ /\ u.role = "employee"
           /\ found # {}
           /\ us[FirstOf(found)].roleChangeRequested

\* AuthContext.canRequestRole: no rejection on record, or one at least the
\* cool-down ago
canRequestRole(us, u, now) ==
    LET found == IndexOfId(us, u.id)
    IN  /\ found # {}
        /\ LET stored == us[FirstOf(found)]
           IN  \/ stored.lastRejection = 0
               \/ now - stored.lastRejection >= RequestCooldown

\* the effects of the profile screen that depend on [user]
UserEffects(pr, us, u, now) ==
    [pr EXCEPT !.hasRequestedAdmin = checkRequestStatus(pr, us, u),
               !.canRequest = canRequestRole(us, u, now)]

----------------------------------------------------------------------------
(* HomeScreen *)

IdleCall == [pc |-> "idle", al |-> NoLocation, status |-> "null",
             sample |-> NoPoint, today |-> 0, currentTime |-> 0]

\* the attendance button is rendered only with a geofence, and is disabled
\* while a location is being fetched or the cached status is not 'inside'
ButtonEnabled ==
    /\ home = "shown"
    /\ user.role = "employee"
    /\ ~geofence.isNull
    /\ ~fetchingLocation
    /\ locationStatus = "inside"

\* what getAttendanceStatus sets from today's stored record
StoredStatus(store, email, now) ==
    LET key == AttendanceKey(email, ISODate(now))
    IN  IF HasItem(store, key)
        THEN (IF store[key].hasCheckOut THEN "false" ELSE "true")
        ELSE "false"

\* AuthContext.login: the stored user becomes the current user and the
\* HomeScreen is mounted with its initial state
Login(e) ==
    /\ user = NoUser
    /\ auth.screen = "login"
    /\ auth.pc = "idle"
    /\ IndexOfEmail(users, e) # {}
    /\ user' = users[FirstOf(IndexOfEmail(users, e))]
    /\ home' = "loading"
    /\ locationStatus' = "unknown"
    /\ attendanceStatus' = "null"
    /\ fetchingLocation' = FALSE
    /\ ha' = IdleCall
    /\ rl' = IdleCall
    /\ UNCHANGED <<storeVars, notice, envVars, histVars, evalVars, acctVars>>

\* AuthContext.logout, from the profile screen
Logout ==
    /\ user # NoUser
    /\ home = "shown"
    /\ ~fetchingLocation
    /\ profile.save.pc = "idle"
    /\ profile.cleanup.pc = "idle"
    /\ user' = NoUser
    /\ home' = "off"
    /\ profile' = IdleProfile
    /\ auth' = IdleAuth
    /\ UNCHANGED <<storeVars, locationStatus, attendanceStatus,
                   fetchingLocation, notice, ha, rl, envVars, histVars,
                   evalVars, invitations, grants, rejectedAt>>

\* the mount effect: permission, first sample, updateLocationStatus and
\* getAttendanceStatus; the screen shows its loading view meanwhile
initializeScreen(outcome) ==
    /\ home = "loading"
    /\ home' = "shown"
    /\ CASE outcome = "denied" ->
            /\ notice' = "Permission Denied"
            /\ UNCHANGED <<locationStatus, attendanceStatus,
                           employeeLocations>>
         [] outcome = "failed" ->
            /\ notice' = "Error"
            /\ UNCHANGED <<locationStatus, attendanceStatus,
                           employeeLocations>>
         [] OTHER ->
            /\ locationStatus' = LocationStatusOf(position, geofence)
            /\ employeeLocations' =
                   SavedLocations(employeeLocations, user, position,
                                  geofence, clock)
            /\ attendanceStatus' = StoredStatus(att, user.email, clock)
            /\ UNCHANGED notice
    /\ UNCHANGED <<users, att, user, fetchingLocation, ha, rl, envVars,
                   histVars, evalVars, acctVars>>

\* refreshLocation up to its position query
refreshLocationStart ==
    /\ home = "shown"
    /\ user.role = "employee"
    /\ ~fetchingLocation
    /\ fetchingLocation' = TRUE
    /\ rl' = [IdleCall EXCEPT !.pc = "locating",
                              !.al = user.assignedLocation]
    /\ UNCHANGED <<storeVars, user, home, locationStatus, attendanceStatus,
                   notice, ha, envVars, histVars, evalVars, acctVars>>

\* refreshLocation after the position query resolved or failed
refreshLocationEnd(ok) ==
    /\ rl.pc = "locating"
    /\ rl' = IdleCall
    /\ fetchingLocation' = FALSE
    /\ IF ok
       THEN /\ locationStatus' = LocationStatusOf(position, geofenceOf(rl.al))
            /\ employeeLocations' =
                   SavedLocations(employeeLocations, user, position,
                                  geofenceOf(rl.al), clock)
            /\ UNCHANGED notice
       ELSE /\ notice' = "Error"
            /\ UNCHANGED <<locationStatus, employeeLocations>>
    /\ UNCHANGED <<users, att, user, home, attendanceStatus, ha, envVars,
                   histVars, evalVars, acctVars>>

\* handleAttendance up to its position query (the attendance button's
\* onPress); the closure keeps the geofence and attendanceStatus of this render
handleAttendanceStart ==
    /\ ButtonEnabled
    /\ IF geofence.isNull \/ locationStatus # "inside"
       THEN /\ notice' = "Error"
            /\ UNCHANGED <<fetchingLocation, ha>>
       ELSE /\ fetchingLocation' = TRUE
            /\ ha' = [IdleCall EXCEPT !.pc = "locating",
                                      !.al = user.assignedLocation,
                                      !.status = attendanceStatus]
            /\ UNCHANGED notice
    /\ UNCHANGED <<storeVars, user, home, locationStatus, attendanceStatus,
                   rl, envVars, histVars, evalVars, acctVars>>

\* giving up without setFetchingLocation(false)
RejectAttendanceKeepsFetching ==
    /\ notice' = "Error"
    /\ fetchingLocation' = fetchingLocation
    /\ ha' = IdleCall

\* how handleAttendance gives up: the error notice, then
\* setFetchingLocation(false)
RejectAttendance ==
    /\ notice' = "Error"
    /\ fetchingLocation' = FALSE
    /\ ha' = IdleCall

\* the position query of handleAttendance resolved (ok) or threw
handleAttendanceLocated(ok) ==
    /\ ha.pc = "locating"
    /\ IF ~ok
       THEN \* catch: 'Failed to process your attendance.'
            /\ RejectAttendance
            /\ UNCHANGED <<locationStatus, employeeLocations>>
       ELSE /\ locationStatus' = LocationStatusOf(position, geofenceOf(ha.al))
            /\ employeeLocations' =
                   SavedLocations(employeeLocations, user, position,
                                  geofenceOf(ha.al), clock)
            /\ IF ~IsInsideFresh(position, geofenceOf(ha.al))
               THEN RejectAttendance
               ELSE /\ ha' = [ha EXCEPT !.pc = "reading",
                                        !.sample = position,
                                        !.today = ISODate(clock),
                                        !.currentTime = clock]
                    /\ UNCHANGED <<notice, fetchingLocation>>
    /\ UNCHANGED <<users, att, user, home, attendanceStatus, rl, envVars,
                   histVars, evalVars, acctVars>>

\* the record handleAttendance stores: a fresh check-in when the key is
\* empty or the closure's attendanceStatus is false, else the check-out
AttendanceWrite(store, u, call) ==
    LET key == AttendanceKey(u.email, call.today)
    IN  IF ~HasItem(store, key) \/ call.status = "false"
        THEN checkInData(u, call.today, call.currentTime, call.sample)
        ELSE updatedData(store[key], call.currentTime, call.sample)

IsCheckIn(store, u, call) ==
    \/ ~HasItem(store, AttendanceKey(u.email, call.today))
    \/ call.status = "false"

\* getItem resolved: the branch is taken, the state is set "immediately for
\* better UX" and setItem is called; outcome is what the store does
handleAttendanceWrite(outcome) ==
    /\ ha.pc = "reading"
    /\ CASE outcome = "readFailed" ->
            /\ RejectAttendance
            /\ UNCHANGED <<att, attendanceStatus>>
         [] outcome = "writeFailed" ->
            /\ attendanceStatus' =
                   (IF IsCheckIn(att, user, ha) THEN "true" ELSE "false")
            /\ RejectAttendance
            /\ UNCHANGED att
         [] OTHER ->
            /\ attendanceStatus' =
                   (IF IsCheckIn(att, user, ha) THEN "true" ELSE "false")
            /\ att' = SetItem(att, AttendanceKey(user.email, ha.today),
                              AttendanceWrite(att, user, ha))
            /\ ha' = [ha EXCEPT !.pc = "written"]
            /\ UNCHANGED <<notice, fetchingLocation>>
    /\ UNCHANGED <<users, employeeLocations, user, home, locationStatus, rl,
                   envVars, histVars, evalVars, acctVars>>

\* setItem resolved: the success notice and setFetchingLocation(false)
handleAttendanceDone ==
    /\ ha.pc = "written"
    /\ notice' = "Success"
    /\ fetchingLocation' = FALSE
    /\ ha' = IdleCall
    /\ UNCHANGED <<storeVars, user, home, locationStatus, attendanceStatus,
                   rl, envVars, histVars, evalVars, acctVars>>

----------------------------------------------------------------------------
(* ProfileScreen *)

\* the values the admin can have in the geofence form
GeofenceForm(lat, lon, radius) ==
    [name |-> Str(<<"O">>), latitude |-> Str(lat), longitude |-> Str(lon),
     radius |-> Str(radius)]

GeofenceInputs ==
    {GeofenceForm(TxtLat, TxtLon, r) : r \in {Txt100, Txt0, TxtBad}}
        \cup {GeofenceForm(TxtEmpty, TxtLon, Txt100)}

IsDefaultOffice(al) ==
    /\ al.present
    /\ al.latitude = Num(DefaultOfficeLat)
    /\ al.longitude = Num(DefaultOfficeLon)

CleanedUsers(us) ==
    [i \in 1..Len(us) |->
        IF IsDefaultOffice(us[i].assignedLocation)
        THEN [us[i] EXCEPT !.assignedLocation = EmptyLocation]
        ELSE us[i]]

\* the mount effect of the profile screen, up to the end of its getItem:
\* it goes on to setItem only when the map changed a user
cleanupDefaultOffice ==
    /\ user # NoUser
    /\ home = "shown"
    /\ profile.cleanup.pc = "idle"
    /\ CleanedUsers(users) # users
    /\ profile' = [profile EXCEPT
                      !.cleanup = [pc |-> "writing", users |-> users]]
    /\ UNCHANGED <<storeVars, user, homeVars, envVars, histVars, evalVars,
                   invitations, grants, auth, rejectedAt>>

\* the array that is in the store when the setItem lands, cleaned
CleanupWrittenFromStore(read, stored) == CleanedUsers(stored)

\* what cleanupDefaultOffice hands to setItem: the array it read, mapped
\* (the array in the store at that time is not looked at)
CleanupWritten(read, stored) == CleanedUsers(read)

\* the setItem of cleanupDefaultOffice: the mapped array replaces the
\* stored one
cleanupDefaultOfficeWrite ==
    /\ profile.cleanup.pc = "writing"
    /\ users' = CleanupWritten(profile.cleanup.users, users)
    /\ profile' = [profile EXCEPT !.cleanup = IdleCleanup]
    /\ UNCHANGED <<att, employeeLocations, user, homeVars, envVars, histVars,
                   evalVars, invitations, grants, auth, rejectedAt>>

\* the focus effect of the profile screen: the stored user replaces the
\* current user
refreshUser ==
    /\ user # NoUser
    /\ home = "shown"
    /\ IndexOfId(users, user.id) # {}
    /\ user' = users[FirstOf(IndexOfId(users, user.id))]
    /\ profile' = IF profile.mounted
                   THEN UserEffects(profile, users, user', clock)
                   ELSE profile
    /\ user' # user \/ profile' # profile
    /\ UNCHANGED <<storeVars, homeVars, envVars, histVars, evalVars,
                   invitations, grants, auth, rejectedAt>>

\* the assignment made to every user of the array
AssignedUsersAll(us, email, form) ==
    [i \in 1..Len(us) |->
        [us[i] EXCEPT !.assignedLocation =
            [present |-> TRUE, name |-> form.name,
             latitude |-> form.latitude, longitude |-> form.longitude,
             radius |-> form.radius]]]

\* `users.map(u => u.email === selectedEmployee.email ? {...u,
\* assignedLocation: {...}} : u)`
AssignedUsers(us, email, form) ==
    [i \in 1..Len(us) |->
        IF us[i].email = email
        THEN [us[i] EXCEPT !.assignedLocation =
                [present |-> TRUE, name |-> form.name,
                 latitude |-> form.latitude, longitude |-> form.longitude,
                 radius |-> form.radius]]
        ELSE us[i]]

\* the array that is in the store when the setItem lands, with the
\* assignment made
updatedUsersFromStore(read, stored, email, form) ==
    AssignedUsers(stored, email, form)

\* `updatedUsers`: the array handleSaveGeofence read, with the assignment
\* made (the array in the store at the time of setItem is not looked at)
updatedUsers(read, stored, email, form) == AssignedUsers(read, email, form)

\* the admin presses 'Save' on the geofence form for the selected employee
\* ("none": no employee selected), up to the end of getItem('users'); the
\* button is disabled while isSaving
handleSaveGeofence(selectedEmployee, form) ==
    /\ user.role = "admin"
    /\ home = "shown"
    /\ profile.save.pc = "idle"
    /\ IF selectedEmployee = "none"
       THEN /\ notice' = "Error"
            /\ UNCHANGED profile
       ELSE IF \/ isNaN(parseFloat(form.latitude))
               \/ isNaN(parseFloat(form.longitude))
               \/ isNaN(parseFloat(form.radius))
       THEN /\ notice' = "Error"
            /\ UNCHANGED profile
       ELSE IF users = << >>
       THEN /\ notice' = "Error"
            /\ UNCHANGED profile
       ELSE /\ profile' = [profile EXCEPT
                              !.save = [pc |-> "writing", users |-> users,
                                        email |-> selectedEmployee,
                                        form |-> form]]
            /\ UNCHANGED notice
    /\ UNCHANGED <<storeVars, user, home, locationStatus, attendanceStatus,
                   fetchingLocation, ha, rl, envVars, histVars, evalVars,
                   invitations, grants, auth, rejectedAt>>

\* the setItem of handleSaveGeofence and what follows it: the array that
\* was read, with the assignment made, replaces the stored one and the
\* alert 'Success', 'Geofence assigned to ...' is shown; or the store throws
\* and the catch shows 'Failed to assign geofence'
handleSaveGeofenceWrite(ok) ==
    /\ profile.save.pc = "writing"
    /\ IF ok
       THEN /\ users' = updatedUsers(profile.save.users, users,
                                     profile.save.email, profile.save.form)
            /\ notice' = "Geofence assigned"
       ELSE /\ notice' = "Error"
            /\ UNCHANGED users
    /\ profile' = [profile EXCEPT !.save = IdleSave]
    /\ UNCHANGED <<att, employeeLocations, user, home, locationStatus,
                   attendanceStatus, fetchingLocation, ha, rl, envVars,
                   histVars, evalVars, invitations, grants, auth,
                   rejectedAt>>

----------------------------------------------------------------------------
(* Accounts: the login and register screens *)

DefaultAdmin == MkUser("admin", "admin", "Admin", "Admin", "admin", NoLocation)

\* the default admin account written whatever the store holds
checkStoredUsersAlways(us) == <<DefaultAdmin>>

\* the mount effect of the login screen: an empty users store gets the
\* default admin account
checkStoredUsers(us) == IF Len(us) = 0 THEN <<DefaultAdmin>> ELSE us

\* the app is started again while nobody is logged in
Restart ==
    /\ user = NoUser
    /\ auth.pc = "idle"
    /\ auth' = IdleAuth
    /\ users' = checkStoredUsers(users)
    /\ auth' # auth \/ users' # users
    /\ UNCHANGED <<att, employeeLocations, user, homeVars, envVars, histVars,
                   evalVars, invitations, grants, profile, rejectedAt>>

\* 'Reset App Data', confirmed: "clear all user accounts and create a fresh
\* admin account"
resetStoredData ==
    /\ user = NoUser
    /\ auth.screen = "login"
    /\ auth.pc = "idle"
    /\ users' = <<DefaultAdmin>>
    /\ UNCHANGED <<att, employeeLocations, user, homeVars, envVars, histVars,
                   evalVars, acctVars>>

\* 'Force Clear Storage': AsyncStorage.clear() and its notice
ForceClearStorage ==
    /\ user = NoUser
    /\ auth.screen = "login"
    /\ auth.pc = "idle"
    /\ users' = << >>
    /\ att' = << >>
    /\ employeeLocations' = [e \in Employees |-> NoSnapshot]
    /\ invitations' = << >>
    /\ notice' = "Storage Cleared"
    /\ UNCHANGED <<user, home, locationStatus, attendanceStatus,
                   fetchingLocation, ha, rl, envVars, histVars, evalVars,
                   grants, auth, profile, rejectedAt>>

\* 'Debug Storage': a stored current user missing from a non-empty users
\* array is pushed onto it
DebugStorage ==
    /\ auth.screen = "login"
    /\ auth.pc = "idle"
    /\ users' = IF /\ user # NoUser
                   /\ Len(users) > 0
                   /\ IndexOfId(users, user.id) = {}
                THEN Append(users, user)
                ELSE users
    /\ notice' = "Debug Complete"
    /\ UNCHANGED <<att, employeeLocations, user, home, locationStatus,
                   attendanceStatus, fetchingLocation, ha, rl, envVars,
                   histVars, evalVars, acctVars>>

\* "Don't have an account? Register": the register screen is mounted
navigateToRegister ==
    /\ user = NoUser
    /\ auth.screen = "login"
    /\ auth.pc = "idle"
    /\ auth' = [IdleAuth EXCEPT !.screen = "register"]
    /\ UNCHANGED <<storeVars, user, homeVars, envVars, histVars, evalVars,
                   invitations, grants, profile, rejectedAt>>

navigateToLogin ==
    /\ user = NoUser
    /\ auth.screen = "register"
    /\ auth.pc = "idle"
    /\ auth' = IdleAuth
    /\ UNCHANGED <<storeVars, user, homeVars, envVars, histVars, evalVars,
                   invitations, grants, profile, rejectedAt>>

\* typing into a field of the register form (the text of a call in flight
\* was taken when the button was pressed, later typing does not reach it)
updateFormField(field, value) ==
    /\ user = NoUser
    /\ auth.screen = "register"
    /\ auth.pc = "idle"
    /\ auth.formState[field] # value
    /\ auth' = [auth EXCEPT !.formState[field] = value]
    /\ UNCHANGED <<storeVars, user, homeVars, envVars, histVars, evalVars,
                   invitations, grants, profile, rejectedAt>>

\* the 'Admin (Invitation Only)' toggle
setHasInvitation ==
    /\ user = NoUser
    /\ auth.screen = "register"
    /\ auth.pc = "idle"
    /\ auth' = [auth EXCEPT !.hasInvitation = ~auth.hasInvitation]
    /\ UNCHANGED <<storeVars, user, homeVars, envVars, histVars, evalVars,
                   invitations, grants, profile, rejectedAt>>

\* no token is handed to register
TokenPassedNever(form, hasInvitation) == NoToken

\* the token handleRegister hands to register whatever the box says
TokenPassedAlways(form, hasInvitation) ==
    [given |-> form.inviteToken # 0, text |-> form.inviteToken]

\* `hasInvitation ? inviteToken : undefined`
TokenPassed(form, hasInvitation) ==
    IF hasInvitation THEN [given |-> TRUE, text |-> form.inviteToken]
    ELSE NoToken

\* the arguments of register(email, password, {name, department}, token)
RegisterCall(form, hasInvitation) ==
    [email |-> form.email, password |-> form.password,
     profile |-> [name |-> form.name, department |-> form.department],
     token |-> TokenPassed(form, hasInvitation)]

\* handleRegister without the comparison of the two passwords
handleRegisterNoComparison ==
    /\ user = NoUser
    /\ auth.screen = "register"
    /\ auth.pc = "idle"
    /\ Len(users) < MaxUsers
    /\ LET form == auth.formState
       IN  IF \/ form.email = ""
              \/ form.password = ""
              \/ form.confirmPassword = ""
              \/ form.name = ""
              \/ form.department = ""
           THEN /\ notice' = "Missing Information"
                /\ UNCHANGED auth
           ELSE IF auth.hasInvitation /\ form.inviteToken = 0
           THEN /\ notice' = "Token Required"
                /\ UNCHANGED auth
           ELSE /\ auth' = [auth EXCEPT
                               !.pc = "registering",
                               !.call = RegisterCall(form,
                                                     auth.hasInvitation)]
                /\ UNCHANGED notice
    /\ UNCHANGED <<storeVars, user, home, locationStatus, attendanceStatus,
                   fetchingLocation, ha, rl, envVars, histVars, evalVars,
                   invitations, grants, profile, rejectedAt>>

\* handleRegister up to its call of register
handleRegister ==
    /\ user = NoUser
    /\ auth.screen = "register"
    /\ auth.pc = "idle"
    /\ Len(users) < MaxUsers
    /\ LET form == auth.formState
       IN  IF \/ form.email = ""
              \/ form.password = ""
              \/ form.confirmPassword = ""
              \/ form.name = ""
              \/ form.department = ""
           THEN /\ notice' = "Missing Information"
                /\ UNCHANGED auth
           ELSE IF form.password # form.confirmPassword
           THEN /\ notice' = "Password Mismatch"
                /\ UNCHANGED auth
           ELSE IF auth.hasInvitation /\ form.inviteToken = 0
           THEN /\ notice' = "Token Required"
                /\ UNCHANGED auth
           ELSE /\ auth' = [auth EXCEPT
                               !.pc = "registering",
                               !.call = RegisterCall(form,
                                                     auth.hasInvitation)]
                /\ UNCHANGED notice
    /\ UNCHANGED <<storeVars, user, home, locationStatus, attendanceStatus,
                   fetchingLocation, ha, rl, envVars, histVars, evalVars,
                   invitations, grants, profile, rejectedAt>>

\* AuthContext.register: a presented token must be a stored invitation,
\* not yet used and not past its expiry
TokenValid(invs, token, now) ==
    /\ token.text \in 1..Len(invs)
    /\ ~invs[token.text].used
    /\ now <= invs[token.text].expiresAt

\* the ids given to registered users
UserIds == <<"u1", "u2", "u3", "u4", "u5", "u6">>

\* AuthContext.register: the account created for a call; the role is admin
\* with a token, employee without
RegisteredUser(us, call) ==
    MkUser(UserIds[Len(us) + 1], call.email, call.profile.name,
           call.profile.department,
           IF call.token.given THEN "admin" ELSE "employee", NoLocation)

\* register settled: it threw (a refused token, or the store failed) and the
\* catch shows 'Registration Failed', or the account was stored, the token
\* consumed and the new user became the current user
registerSettled(outcome) ==
    /\ auth.pc = "registering"
    /\ IF \/ outcome = "storeFailed"
          \/ /\ auth.call.token.given
             /\ ~TokenValid(invitations, auth.call.token, clock)
       THEN /\ notice' = "Registration Failed"
            /\ auth' = [auth EXCEPT !.pc = "idle", !.call = NoCall]
            /\ UNCHANGED <<users, invitations, user, home, locationStatus,
                           attendanceStatus, fetchingLocation, ha, rl,
                           profile>>
       ELSE /\ users' = Append(users, RegisteredUser(users, auth.call))
            /\ invitations' =
                   IF auth.call.token.given
                   THEN [invitations EXCEPT
                            ![auth.call.token.text].used = TRUE]
                   ELSE invitations
            /\ user' = RegisteredUser(users, auth.call)
            /\ notice' = "Registration Successful"
            /\ auth' = IdleAuth
            /\ profile' = IdleProfile
            /\ home' = "loading"
            /\ locationStatus' = "unknown"
            /\ attendanceStatus' = "null"
            /\ fetchingLocation' = FALSE
            /\ ha' = IdleCall
            /\ rl' = IdleCall
    /\ UNCHANGED <<att, employeeLocations, envVars, histVars, evalVars,
                   grants, rejectedAt>>

----------------------------------------------------------------------------
(* Accounts: invitations and role requests on the profile screen *)

\* the profile tab is opened for the first time in a session
mountProfile ==
    /\ user # NoUser
    /\ home = "shown"
    /\ ~profile.mounted
    /\ profile' = UserEffects([IdleProfile EXCEPT !.mounted = TRUE], users,
                              user, clock)
    /\ UNCHANGED <<storeVars, user, homeVars, envVars, histVars, evalVars,
                   invitations, grants, auth, rejectedAt>>

\* the 'Invite Administrator' and 'Role Requests' items whoever is logged in
AdminItemsShownToAll(u) == u # NoUser

\* the 'Invite Administrator' and 'Role Requests' items are rendered inside
\* the Admin Tools section, under hasPermission(ASSIGN_ROLES)
AdminItemsShown(u) ==
    /\ u.role = "admin"
    /\ hasPermission(u, AssignRoles)

\* the 'Invite Administrator' item: the invite modal opens with an empty
\* email and no token
openInviteModal ==
    /\ profile.mounted
    /\ AdminItemsShown(user)
    /\ ~profile.inviteModal
    /\ ~profile.requestsModal
    /\ profile' = [profile EXCEPT !.inviteEmail = "",
                                  !.generatedToken = 0,
                                  !.inviteModal = TRUE]
    /\ UNCHANGED <<storeVars, user, homeVars, envVars, histVars, evalVars,
                   invitations, grants, auth, rejectedAt>>

closeInviteModal ==
    /\ profile.inviteModal
    /\ profile' = [profile EXCEPT !.inviteModal = FALSE]
    /\ UNCHANGED <<storeVars, user, homeVars, envVars, histVars, evalVars,
                   invitations, grants, auth, rejectedAt>>

setInviteEmail(text) ==
    /\ profile.inviteModal
    /\ profile.inviteEmail # text
    /\ profile' = [profile EXCEPT !.inviteEmail = text]
    /\ UNCHANGED <<storeVars, user, homeVars, envVars, histVars, evalVars,
                   invitations, grants, auth, rejectedAt>>

\* the texts typed as the invited email; the second has no '@'
InviteEmails == {"e3@x", "e3"}

\* `inviteEmail.includes('@')`
IncludesAt(text) == text \in {"e3@x"}

\* AuthContext.inviteAdmin: a new token for the email, valid for 48 hours
inviteAdmin(invs, email, now) ==
    Append(invs, [email |-> email, expiresAt |-> now + InviteLifetime,
                  used |-> FALSE])

\* 'Generate Invitation', shown in the modal while no token is displayed
handleInviteAdmin(ok) ==
    /\ profile.inviteModal
    /\ profile.generatedToken = 0
    /\ Len(invitations) < MaxTokens
    /\ IF profile.inviteEmail = "" \/ ~IncludesAt(profile.inviteEmail)
       THEN /\ notice' = "Error"
            /\ UNCHANGED <<invitations, profile>>
       ELSE IF ok
       THEN /\ invitations' = inviteAdmin(invitations, profile.inviteEmail,
                                          clock)
            /\ profile' = [profile EXCEPT
                              !.generatedToken = Len(invitations')]
            /\ notice' = "Success"
       ELSE /\ notice' = "Error"
            /\ UNCHANGED <<invitations, profile>>
    /\ UNCHANGED <<storeVars, user, home, locationStatus, attendanceStatus,
                   fetchingLocation, ha, rl, envVars, histVars, evalVars,
                   grants, auth, rejectedAt>>

\* AuthContext.requestAdminRole: the flag is set on the requester's record
requestAdminRole(us, id) ==
    [i \in 1..Len(us) |->
        IF us[i].id = id THEN [us[i] EXCEPT !.roleChangeRequested = TRUE]
        ELSE us[i]]

\* 'Request Admin Privileges', rendered for an employee while
\* hasRequestedAdmin is false
handleRequestAdminRole(ok) ==
    /\ profile.mounted
    /\ user.role = "employee"
    /\ ~profile.hasRequestedAdmin
    /\ IF ~profile.canRequest
       THEN /\ notice' = "Cannot Request Yet"
            /\ UNCHANGED users
       ELSE IF ok
       THEN /\ users' = requestAdminRole(users, user.id)
            /\ notice' = "Request Submitted"
       ELSE /\ notice' = "Error"
            /\ UNCHANGED users
    /\ UNCHANGED <<att, employeeLocations, user, home, locationStatus,
                   attendanceStatus, fetchingLocation, ha, rl, envVars,
                   histVars, evalVars, acctVars>>

\* AuthContext.getRoleRequests: the ids of the users whose flag is set
RECURSIVE getRoleRequests(_)
getRoleRequests(us) ==
    IF us = << >> THEN << >>
    ELSE (IF Head(us).roleChangeRequested THEN <<Head(us).id>> ELSE << >>)
             \o getRoleRequests(Tail(us))

\* the 'Role Requests' item: loadRoleRequests and the modal
openRoleRequests(ok) ==
    /\ profile.mounted
    /\ AdminItemsShown(user)
    /\ ~profile.inviteModal
    /\ ~profile.requestsModal
    /\ IF ok
       THEN /\ profile' = [profile EXCEPT
                              !.roleRequests = getRoleRequests(users),
                              !.requestsModal = TRUE]
            /\ UNCHANGED notice
       ELSE /\ profile' = [profile EXCEPT !.requestsModal = TRUE]
            /\ notice' = "Error"
    /\ UNCHANGED <<storeVars, user, home, locationStatus, attendanceStatus,
                   fetchingLocation, ha, rl, envVars, histVars, evalVars,
                   invitations, grants, auth, rejectedAt>>

closeRoleRequests ==
    /\ profile.requestsModal
    /\ profile' = [profile EXCEPT !.requestsModal = FALSE]
    /\ UNCHANGED <<storeVars, user, homeVars, envVars, histVars, evalVars,
                   invitations, grants, auth, rejectedAt>>

\* AuthContext.approveRoleRequest: the user becomes an admin and the flag is
\* cleared
approveRoleRequest(us, id) ==
    [i \in 1..Len(us) |->
        IF us[i].id = id
        THEN [us[i] EXCEPT !.role = "admin", !.roleChangeRequested = FALSE]
        ELSE us[i]]

\* the list whatever approveRoleRequest did
RequestsAfterApprovalDropped(requests, id, ok) ==
    SelectSeq(requests, LAMBDA r : r # id)

\* `setRoleRequests(prev => prev.filter(req => req.id !== userId))`, reached
\* only when approveRoleRequest did not throw
RequestsAfterApproval(requests, id, ok) ==
    IF ok THEN SelectSeq(requests, LAMBDA r : r # id) ELSE requests

\* 'Approve' on an item of the list
handleApproveRequest(userId, ok) ==
    /\ profile.requestsModal
    /\ userId \in Range(profile.roleRequests)
    /\ users' = IF ok THEN approveRoleRequest(users, userId) ELSE users
    /\ profile' = [profile EXCEPT
                      !.roleRequests =
                          RequestsAfterApproval(profile.roleRequests,
                                                userId, ok)]
    /\ notice' = IF ok THEN "Success" ELSE "Error"
    /\ UNCHANGED <<att, employeeLocations, user, home, locationStatus,
                   attendanceStatus, fetchingLocation, ha, rl, envVars,
                   histVars, evalVars, invitations, grants, auth,
                   rejectedAt>>

\* 'Reject' on an item of the list: the request leaves the list in memory
\* and nothing is stored
handleRejectRequest(userId) ==
    /\ profile.requestsModal
    /\ userId \in Range(profile.roleRequests)
    /\ profile' = [profile EXCEPT
                      !.roleRequests =
                          SelectSeq(profile.roleRequests,
                                    LAMBDA r : r # userId)]
    /\ rejectedAt' = SetItem(rejectedAt, userId, clock)
    /\ UNCHANGED <<storeVars, user, homeVars, envVars, histVars, evalVars,
                   invitations, grants, auth>>

----------------------------------------------------------------------------
(* The device *)

Tick(d) ==
    /\ clock + d <= StartClock + MaxTicks * 510
    /\ clock' = clock + d
    /\ UNCHANGED <<storeVars, user, homeVars, tz, position, histVars,
                   evalVars, acctVars>>

\* a day and an hour go by
Elapse(d) ==
    /\ clock + d <= StartClock + MaxTicks * 25 * 60
    /\ clock' = clock + d
    /\ UNCHANGED <<storeVars, user, homeVars, tz, position, histVars,
                   evalVars, acctVars>>

Move(p) ==
    /\ p # position
    /\ position' = p
    /\ UNCHANGED <<storeVars, user, homeVars, clock, tz, histVars, evalVars,
                   acctVars>>

----------------------------------------------------------------------------
(* The application on one device *)

InitialUsers(al1, al2) ==
    << MkUser("admin", "admin", "Admin", "Admin", "admin", NoLocation),
       MkUser("e1", "e1", "E1", "Eng", "employee", al1),
       MkUser("e2", "e2", "E2", "Ops", "employee", al2) >>

IdleHistory ==
    /\ attendanceHistory = << >>
    /\ filter = "all"
    /\ selectedDept = "All"
    /\ histPc = "init"

IdleEvaluator ==
    /\ evalIn = [sample |-> NoPoint, al |-> NoLocation]
    /\ evalOut = "none"

\* nothing invited, requested or typed; the login screen is shown
IdleAccounts ==
    /\ invitations = << >>
    /\ grants = DefaultGrants
    /\ auth = IdleAuth
    /\ profile = IdleProfile
    /\ rejectedAt = << >>

Init ==
    /\ \E al1 \in {NoLocation, LegacyLocation} :
          users = InitialUsers(al1, NoLocation)
    /\ att = << >>
    /\ employeeLocations = [e \in Employees |-> NoSnapshot]
    /\ user = NoUser
    /\ home = "off"
    /\ locationStatus = "unknown"
    /\ attendanceStatus = "null"
    /\ fetchingLocation = FALSE
    /\ notice = "none"
    /\ ha = IdleCall
    /\ rl = IdleCall
    /\ clock = StartClock
    /\ tz \in ZoneOffsets
    /\ position = PtC
    /\ IdleHistory
    /\ IdleEvaluator
    /\ IdleAccounts

Next ==
    \/ \E e \in {"admin", "e1"} : Login(e)
    \/ Logout
    \/ \E o \in {"denied", "failed", "ok"} : initializeScreen(o)
    \/ refreshLocationStart
    \/ \E ok \in BOOLEAN : refreshLocationEnd(ok)
    \/ handleAttendanceStart
    \/ \E ok \in BOOLEAN : handleAttendanceLocated(ok)
    \/ \E o \in {"readFailed", "writeFailed", "ok"} : handleAttendanceWrite(o)
    \/ handleAttendanceDone
    \/ cleanupDefaultOffice
    \/ cleanupDefaultOfficeWrite
    \/ refreshUser
    \/ \E sel \in {"none", "e1"}, form \in GeofenceInputs :
          handleSaveGeofence(sel, form)
    \/ \E ok \in BOOLEAN : handleSaveGeofenceWrite(ok)
    \/ \E d \in ClockSteps : Tick(d)
    \/ \E p \in Positions : Move(p)

Spec == Init /\ [][Next]_vars

TypeOK ==
    /\ home \in {"off", "loading", "shown"}
    /\ locationStatus \in {"inside", "outside", "unknown"}
    /\ attendanceStatus \in {"true", "false", "null"}
    /\ fetchingLocation \in BOOLEAN
    /\ ha.pc \in {"idle", "locating", "reading", "written"}
    /\ rl.pc \in {"idle", "locating"}

----------------------------------------------------------------------------
(* Properties of the attendance state machine *)

\* the stored records of one user whose check-in fell on local day d
RecordsOfLocalDay(store, email, d) ==
    {k \in DOMAIN store :
        /\ store[k].email = email
        /\ LocalDate(store[k].checkInTime, tz) = d}

NoAssignedGeofence(al) == al = NoLocation \/ al = EmptyLocation

\* C1: once a day's stored record has a checkOutTime, no later step
\* creates, overwrites or alters that record
C1_CheckedOutIsTerminal ==
    [][\A k \in DOMAIN att :
          att[k].hasCheckOut => (k \in DOMAIN att' /\ att'[k] = att[k])]_vars

\* C2: a record is written only by an invocation of handleAttendance whose
\* own sample lies inside the geofence of that invocation
C2_WriteOnlyOnFreshInside ==
    [][att' # att =>
          /\ ha.pc = "reading"
          /\ ha.sample \in Positions
          /\ LocationStatusOf(ha.sample, geofenceOf(ha.al)) = "inside"]_vars

\* C2 witness: a record has just been written from a sample inside
C2_Witness ==
    /\ ha.pc = "written"
    /\ LocationStatusOf(ha.sample, geofenceOf(ha.al)) = "inside"
    /\ att # << >>

\* C3: a check-out (the button read CHECK OUT) on the local day of the open
\* check-in leaves exactly one record for that user and local day, with both
\* times set and totalHours the difference in hours to two decimals
C3_OneRecordPerDay ==
    [][(/\ ha.pc = "reading"
        /\ ha.status = "true"
        /\ att' # att
        /\ \E k \in RecordsOfLocalDay(att, user.email,
                                      LocalDate(ha.currentTime, tz)) :
              ~att[k].hasCheckOut)
       =>
       LET day == RecordsOfLocalDay(att', user.email,
                                    LocalDate(ha.currentTime, tz))
       IN  /\ Cardinality(day) = 1
           /\ \A k \in day :
                 /\ att'[k].hasCheckOut
                 /\ att'[k].checkOutTime = ha.currentTime
                 /\ 6 * att'[k].totalHours - 3
                        <= 10 * (att'[k].checkOutTime - att'[k].checkInTime)
                 /\ 10 * (att'[k].checkOutTime - att'[k].checkInTime)
                        < 6 * att'[k].totalHours + 3]_vars

\* C4: a user whose stored record has no assigned location has no attendance
\* record, and an invocation of handleAttendance made without an assigned
\* geofence (never set, or emptied) ends in an error notice without a write
C4_NoGeofenceNoRecord ==
    /\ [](\A i \in 1..Len(users) :
             users[i].assignedLocation = NoLocation
                => \A k \in DOMAIN att : k.email # users[i].email)
    /\ [][(ha.pc = "locating" /\ NoAssignedGeofence(ha.al) /\ ha' # ha)
             => (ha'.pc = "idle" /\ notice' = "Error" /\ att' = att)]_vars

\* C4 witness: handleAttendance is running for a user whose assigned
\* location was emptied
C4_Witness ==
    /\ ha.pc = "locating"
    /\ NoAssignedGeofence(ha.al)
    /\ NoAssignedGeofence(user.assignedLocation)

\* C5: when the fresh sample of handleAttendance is outside the geofence or
\* the position query fails, no record is created or changed, attendanceStatus
\* is unchanged, an error notice is shown and fetchingLocation is false again
C5_RejectionLeavesLedger ==
    [][(/\ ha.pc = "locating"
        /\ ha' # ha
        /\ \/ ha'.pc = "idle"
           \/ LocationStatusOf(position, geofenceOf(ha.al)) # "inside")
       =>
       /\ ha'.pc = "idle"
       /\ att' = att
       /\ attendanceStatus' = attendanceStatus
       /\ notice' = "Error"
       /\ fetchingLocation' = FALSE]_vars

\* C5 witness: handleAttendance was started on a cached 'inside' and the
\* device is outside the geofence when the fresh sample is taken
C5_Witness ==
    /\ ha.pc = "locating"
    /\ locationStatus = "inside"
    /\ ~geofenceOf(ha.al).isNull
    /\ LocationStatusOf(position, geofenceOf(ha.al)) = "outside"
    /\ att # << >>

\* C7: every location evaluation made for a user without an assigned
\* geofence (never set, or emptied by cleanupDefaultOffice) yields 'unknown'
C7_NoGeofenceIsUnknown ==
    [][/\ (initializeScreen("ok") /\ NoAssignedGeofence(user.assignedLocation))
            => locationStatus' = "unknown"
       /\ (refreshLocationEnd(TRUE) /\ NoAssignedGeofence(rl.al))
            => locationStatus' = "unknown"
       /\ (handleAttendanceLocated(TRUE) /\ NoAssignedGeofence(ha.al))
            => locationStatus' = "unknown"]_vars

\* C8: the effective radius is the assigned radius whenever that radius is
\* numeric (0 included), and 100 metres only when it is absent or not numeric
C8_EffectiveRadius ==
    (user # NoUser /\ user.assignedLocation.present)
        => LET r == parseFloat(user.assignedLocation.radius)
           IN  geofence.radius = (IF r.nan THEN Val(100 * Scale) ELSE r)

\* C9: the date in the storage key and in the record is the device-local
\* date of the check-in
C9_KeyIsLocalDate ==
    \A k \in DOMAIN att :
        /\ k.email = att[k].email
        /\ k.date = att[k].date
        /\ att[k].date = LocalDate(att[k].checkInTime, tz)

\* C22: every location sample an employee's screen takes (on mount, in
\* refreshLocation, in handleAttendance) leaves the employee's own
\* employeeLocations entry holding the coordinates of the sample and an
\* isInside that is its classification, and every other entry as it was
C22_RefreshOverwritesOwnSnapshot ==
    [][(/\ user.role = "employee"
        /\ \/ initializeScreen("ok")
           \/ refreshLocationEnd(TRUE)
           \/ handleAttendanceLocated(TRUE)) =>
          (/\ employeeLocations'[user.email] =
                  [known |-> TRUE, latitude |-> position.lat,
                   longitude |-> position.lon,
                   isInside |-> locationStatus' = "inside"]
           /\ \A e \in Employees \ {user.email} :
                 employeeLocations'[e] = employeeLocations[e])]_vars

\* while an invocation of handleAttendance is in flight the attendance
\* button is disabled and no refreshLocation runs
AttendanceSerialized ==
    /\ ha.pc # "idle" => (fetchingLocation /\ ~ButtonEnabled /\ rl.pc = "idle")
    /\ rl.pc # "idle" => fetchingLocation

\* C24: at most one invocation of handleAttendance is in flight at a time
\* (the button is disabled from its start to its end, whatever
\* refreshLocation does), and no two presses both perform a check-in for one
\* day: a check-in is written only for a day that has no record yet
C24_OneCheckInPerDay ==
    /\ []AttendanceSerialized
    /\ [][handleAttendanceStart => ha.pc = "idle"]_vars
    /\ [][(/\ ha.pc = "reading"
           /\ att' # att
           /\ IsCheckIn(att, user, ha)) =>
              ~HasItem(att, AttendanceKey(user.email, ha.today))]_vars

\* C26: a check-out (the write of an invocation that found the day's record
\* and took the check-out branch, or of one started from the CHECK OUT
\* label) leaves date, email, name, department, checkInTime and
\* checkInLocation of every stored record as they were; the record it writes
\* gains the check-out time and place of this invocation
C26_CheckOutKeepsCheckIn ==
    [][(/\ ha.pc = "reading"
        /\ att' # att
        /\ \/ ~IsCheckIn(att, user, ha)
           \/ ha.status = "true") =>
          (/\ \A k \in DOMAIN att :
                 /\ k \in DOMAIN att'
                 /\ att'[k].date = att[k].date
                 /\ att'[k].email = att[k].email
                 /\ att'[k].name = att[k].name
                 /\ att'[k].department = att[k].department
                 /\ att'[k].checkInTime = att[k].checkInTime
                 /\ att'[k].checkInLocation = att[k].checkInLocation
           /\ ~IsCheckIn(att, user, ha) =>
                 LET key == AttendanceKey(user.email, ha.today)
                 IN  /\ att'[key].hasCheckOut
                     /\ att'[key].checkOutTime = ha.currentTime
                     /\ att'[key].checkOutLocation = ha.sample
                     /\ \A k \in DOMAIN att' \ {key} :
                           k \in DOMAIN att /\ att'[k] = att[k])]_vars

\* C26 witness: a check-out has just been written, at a later time and
\* another place than the check-in of the record
C26_Witness ==
    /\ ha.pc = "written"
    /\ LET key == AttendanceKey(user.email, ha.today)
       IN  /\ HasItem(att, key)
           /\ att[key].hasCheckOut
           /\ att[key].checkOutTime = ha.currentTime
           /\ att[key].checkInTime < att[key].checkOutTime
           /\ att[key].checkInLocation # att[key].checkOutLocation

----------------------------------------------------------------------------
(* The geofence evaluator applied to drawn samples and assigned locations *)

PtS5 == [lat |-> 377744, lon |-> -1224194]     \* 0.0005 degrees south

EvalPositions == {PtC, PtN5, PtS5, PtN10, PtD}

EvalRadii ==
    {Txt100, Txt50, Txt0, TxtNeg, TxtBad, TxtUnit,
     <<"5", "5", ".", "5">>, <<"5", "5", ".", "6">>,
     <<"1", "1", "1", ".", "1">>, <<"1", "1", "1", ".", "2">>}

EvalLocations ==
    {NoLocation, EmptyLocation, LegacyLocation}
        \cup {[present |-> TRUE, name |-> Str(<<"O">>), latitude |-> Str(lat),
               longitude |-> Str(TxtLon), radius |-> Str(r)] :
                 lat \in {TxtLat, TxtEmpty}, r \in EvalRadii}

\* updateLocationStatus for one sample and one user's assigned location
Evaluate(p, al) ==
    /\ evalIn' = [sample |-> p, al |-> al]
    /\ evalOut' = LocationStatusOf(p, geofenceOf(al))
    /\ UNCHANGED <<storeVars, user, homeVars, envVars, histVars, acctVars>>

InitEval ==
    /\ users = InitialUsers(NoLocation, NoLocation)
    /\ att = << >>
    /\ employeeLocations = [e \in Employees |-> NoSnapshot]
    /\ user = NoUser
    /\ home = "off"
    /\ locationStatus = "unknown"
    /\ attendanceStatus = "null"
    /\ fetchingLocation = FALSE
    /\ notice = "none"
    /\ ha = IdleCall
    /\ rl = IdleCall
    /\ clock = StartClock
    /\ tz = 0
    /\ position = PtC
    /\ IdleHistory
    /\ IdleEvaluator
    /\ IdleAccounts

NextEval == \E p \in EvalPositions, al \in EvalLocations : Evaluate(p, al)

SpecEval == InitEval /\ [][NextEval]_vars

\* great-circle distances from the two centres of the model, in km * Scale,
\* as measured on the sphere of radius 6371 km
ReferenceDistance(p, lat, lon) ==
    IF p.lat = lat /\ p.lon = lon THEN 0
    ELSE IF lat = PtC.lat /\ lon = PtC.lon
    THEN (CASE p = PtN5 -> 556 [] p = PtS5 -> 556 [] p = PtN10 -> 1112
            [] OTHER -> 137088576)
    ELSE 137088576

\* C6: with an assigned geofence a sample is 'inside' exactly when its
\* distance to the centre is at most radius / 1000 km and 'outside'
\* otherwise; the centre itself is inside for every radius > 0
C6_InsideIffWithinRadius ==
    evalOut # "none" /\ evalIn.al.present =>
        LET g == geofenceOf(evalIn.al)
            p == evalIn.sample
            numeric == ~g.latitude.nan /\ ~g.longitude.nan /\ ~g.radius.nan
            d == ReferenceDistance(p, g.latitude.v, g.longitude.v)
            within == numeric /\ d < 10000 /\ d * 1000 <= g.radius.v
        IN  /\ evalOut = (IF within THEN "inside" ELSE "outside")
            /\ (/\ numeric
                /\ p.lat = g.latitude.v
                /\ p.lon = g.longitude.v
                /\ g.radius.v > 0) => evalOut = "inside"

\* C6 witness: a sample 55.6 m from the centre was classified against a
\* radius of 55.6 m and found inside
C6_Witness ==
    /\ evalIn.sample = PtN5
    /\ evalIn.al.present
    /\ evalIn.al.radius = Str(<<"5", "5", ".", "6">>)
    /\ evalOut = "inside"

----------------------------------------------------------------------------
(* AttendanceScreen: the history query *)

\* the orders in which getAllKeys may list a set of keys
Orderings(S) ==
    {o \in [1..Cardinality(S) -> S] : \A i, j \in DOMAIN o :
        i # j => o[i] # o[j]}

\* `new Date(a.checkInTime || a.date || 0)`: a record without a check-in
\* time (0 here) is placed at the UTC midnight of its date
SortTime(rec) ==
    IF rec.checkInTime # 0 THEN rec.checkInTime
    ELSE rec.date * MinutesPerDay

\* Array.prototype.sort with `dateB - dateA`: stable, latest first
RECURSIVE InsertByTime(_, _)
InsertByTime(sorted, rec) ==
    IF sorted = << >> THEN <<rec>>
    ELSE IF SortTime(Head(sorted)) >= SortTime(rec)
         THEN <<Head(sorted)>> \o InsertByTime(Tail(sorted), rec)
         ELSE <<rec>> \o sorted

\* the list left in the order the keys were read
SortByTimeUnsorted(seq) == seq

RECURSIVE SortByTime(_)
SortByTime(seq) ==
    IF seq = << >> THEN << >>
    ELSE InsertByTime(SortByTime(SubSeq(seq, 1, Len(seq) - 1)),
                      seq[Len(seq)])

EmployeesOf(us) == SelectSeq(us, LAMBDA u : u.role = "employee")

\* a stored record as the list shows it: an admin sees a missing name or
\* department filled in from the employee of that email
ListedRecord(rec, requester, employees) ==
    LET found == {i \in 1..Len(employees) : employees[i].email = rec.email}
        fill == /\ requester.role = "admin"
                /\ (rec.name = "" \/ rec.department = "")
                /\ found # {}
        emp == employees[FirstOf(found)]
        shown == IF fill
                 THEN [rec EXCEPT
                          !.name = IF rec.name = "" THEN emp.name
                                   ELSE rec.name,
                          !.department = IF rec.department = ""
                                         THEN emp.department
                                         ELSE rec.department]
                 ELSE rec
    IN  shown @@ [status |-> ""]

\* the "No attendance recorded" entry shown for an employee
Placeholder(emp, now) ==
    [date |-> ISODate(now), email |-> emp.email, name |-> emp.name,
     department |-> emp.department, checkInTime |-> now,
     checkInLocation |-> NoPoint, hasCheckOut |-> FALSE, checkOutTime |-> 0,
     checkOutLocation |-> NoPoint, totalHours |-> 0,
     status |-> "No attendance recorded"]

\* a requester who is not an admin is left with the records of the
\* requester's own email
VisibleToAll(requester, history) == history

VisibleTo(requester, history) ==
    IF requester.role # "admin"
    THEN SelectSeq(history, LAMBDA rec : rec.email = requester.email)
    ELSE history

\* placeholders whoever asks
NeedsPlaceholdersAnyRole(requester, read, employees) ==
    Len(read) = 0 /\ Len(employees) > 0

\* `user.role === 'admin' && history.length === 0 && employees.length > 0`
NeedsPlaceholders(requester, read, employees) ==
    requester.role = "admin" /\ Len(read) = 0 /\ Len(employees) > 0

\* the list fetchHistory puts in attendanceHistory, for one key order
FetchedHistory(us, store, requester, order, now) ==
    LET employees == EmployeesOf(us)
        read == [i \in 1..Len(order) |->
                    ListedRecord(store[order[i]], requester, employees)]
        history == IF NeedsPlaceholders(requester, read, employees)
                   THEN [i \in 1..Len(employees) |->
                            Placeholder(employees[i], now)]
                   ELSE read
        sorted == SortByTime(history)
    IN  VisibleTo(requester, sorted)

\* fetchHistory: ok, or a store operation threw (only logged)
fetchHistory(ok) ==
    /\ user # NoUser
    /\ IF ok
       THEN /\ \E order \in Orderings(DOMAIN att) :
                  attendanceHistory' =
                      FetchedHistory(users, att, user, order, clock)
            /\ histPc' = "done"
       ELSE /\ histPc' = "failed"
            /\ UNCHANGED attendanceHistory
    /\ UNCHANGED <<storeVars, user, homeVars, envVars, filter, selectedDept,
                   evalVars, acctVars>>

\* the calendar of the model: day 0 is 1 March of a common year
MonthLengths == <<31, 30, 31, 30, 31, 31, 30, 31, 30, 31>>

RECURSIVE MonthOfDay(_, _)
MonthOfDay(day, m) ==
    IF m >= Len(MonthLengths) \/ day < MonthLengths[m] THEN m
    ELSE MonthOfDay(day - MonthLengths[m], m + 1)

\* `monthAgo.setMonth(now.getMonth() - 1)`: the same local day number and
\* time of day in the previous month, i.e. that month's length earlier
MonthAgo(now, z) ==
    LET m == MonthOfDay(LocalDate(now, z), 1)
        len == IF m = 1 THEN 28 ELSE MonthLengths[m - 1]
    IN  now - len * MinutesPerDay

\* `weekAgo.setDate(now.getDate() - 7)`
WeekAgo(now) == now - 7 * MinutesPerDay

InPeriod(rec, period, now, z) ==
    CASE period = "week" ->
            SortTime(rec) >= WeekAgo(now) /\ SortTime(rec) <= now
      [] period = "month" ->
            SortTime(rec) >= MonthAgo(now, z) /\ SortTime(rec) <= now
      [] OTHER -> TRUE

\* the list with the period filter alone
filteredHistoryAllDepts ==
    IF filter # "all"
    THEN SelectSeq(attendanceHistory,
                   LAMBDA rec : InPeriod(rec, filter, clock, tz))
    ELSE attendanceHistory

\* the memoised list the screen renders
filteredHistory ==
    LET byDept == IF user.role = "admin" /\ selectedDept # "All"
                  THEN SelectSeq(attendanceHistory,
                                 LAMBDA rec : rec.department = selectedDept)
                  ELSE attendanceHistory
    IN  IF filter # "all"
        THEN SelectSeq(byDept, LAMBDA rec : InPeriod(rec, filter, clock, tz))
        ELSE byDept

setFilter(f) ==
    /\ user # NoUser
    /\ f # filter
    /\ filter' = f
    /\ UNCHANGED <<storeVars, user, homeVars, envVars, attendanceHistory,
                   selectedDept, histPc, evalVars, acctVars>>

\* 'All' and then the departments of the stored users
Departments(us) == {"All"} \cup {us[i].department : i \in 1..Len(us)}

\* the department chips are shown to admins only
setSelectedDept(d) ==
    /\ user.role = "admin"
    /\ d \in Departments(users)
    /\ d # selectedDept
    /\ selectedDept' = d
    /\ UNCHANGED <<storeVars, user, homeVars, envVars, attendanceHistory,
                   filter, histPc, evalVars, acctVars>>

\* the ledgers the query is checked on: records of both employees, checked
\* in at 09:00 UTC 40 days, 7 days and 2 days before the day of the query
\* (11 April, 10:00 UTC), some stored without a department
HistNow == 42 * MinutesPerDay + 10 * 60
HistDays == {2, 35, 40}

HistRecord(e, day, dept, out) ==
    [date |-> day, email |-> e, name |-> IF e = "e1" THEN "E1" ELSE "E2",
     department |-> dept, checkInTime |-> day * MinutesPerDay + 9 * 60,
     checkInLocation |-> PtC, hasCheckOut |-> out,
     checkOutTime |-> IF out THEN day * MinutesPerDay + 9 * 60 + 510 ELSE 0,
     checkOutLocation |-> IF out THEN PtC ELSE NoPoint,
     totalHours |-> IF out THEN 850 ELSE 0]

HistKeys == {AttendanceKey(e, d) : e \in Employees, d \in HistDays}

HistLedgers ==
    UNION {[K -> {"", "own"} \X BOOLEAN] :
              K \in {S \in SUBSET HistKeys : Cardinality(S) <= MaxLedger}}

LedgerOf(choice) ==
    [k \in DOMAIN choice |->
        HistRecord(k.email, k.date,
                   IF choice[k][1] = "" THEN ""
                   ELSE (IF k.email = "e1" THEN "Eng" ELSE "Ops"),
                   choice[k][2])]

\* the users on the device: the default admin alone, or with two employees
HistUsers ==
    {InitialUsers(NoLocation, NoLocation),
     SubSeq(InitialUsers(NoLocation, NoLocation), 1, 1)}

InitHist ==
    /\ users \in HistUsers
    /\ \E choice \in HistLedgers :
          /\ att = LedgerOf(choice)
          /\ Len(EmployeesOf(users)) = 0 => att = << >>
    /\ employeeLocations = [e \in Employees |-> NoSnapshot]
    /\ \E i \in 1..Len(users) : user = users[i]
    /\ home = "shown"
    /\ locationStatus = "unknown"
    /\ attendanceStatus = "null"
    /\ fetchingLocation = FALSE
    /\ notice = "none"
    /\ ha = IdleCall
    /\ rl = IdleCall
    /\ clock = HistNow
    /\ tz \in ZoneOffsets
    /\ position = PtC
    /\ IdleHistory
    /\ IdleEvaluator
    /\ IdleAccounts

NextHist ==
    \/ \E ok \in BOOLEAN : fetchHistory(ok)
    \/ \E f \in {"all", "week", "month"} : setFilter(f)
    \/ \E d \in {"All", "Admin", "Eng", "Ops"} : setSelectedDept(d)

SpecHist == InitHist /\ [][NextHist]_vars

\* C10: an employee's list holds only records of the employee's own email;
\* an admin who fetched with department 'All' and period 'all' is shown
\* every stored record
C10_EmployeeSeesOwnAdminSeesAll ==
    /\ user.role = "employee" =>
          \A i \in 1..Len(filteredHistory) :
              filteredHistory[i].email = user.email
    /\ (/\ user.role = "admin"
        /\ histPc = "done"
        /\ selectedDept = "All"
        /\ filter = "all") =>
          \A k \in DOMAIN att :
              \E i \in 1..Len(filteredHistory) :
                  /\ filteredHistory[i].email = att[k].email
                  /\ filteredHistory[i].date = att[k].date
                  /\ filteredHistory[i].checkInTime = att[k].checkInTime
                  /\ filteredHistory[i].status = ""

\* C10 witness: an employee was shown a list although the ledger also holds
\* a record of the other employee
C10_Witness ==
    /\ user.role = "employee"
    /\ histPc = "done"
    /\ Len(filteredHistory) > 0
    /\ \E k \in DOMAIN att : k.email # user.email

\* C11: under every department and period filter the displayed list is in
\* descending order of check-in time (of the date where a record has no
\* check-in time): no record stands before one with a later time
C11_ListedNewestFirst ==
    \A i, j \in 1..Len(filteredHistory) :
        i < j =>
            LET a == filteredHistory[i]
                b == filteredHistory[j]
                ta == IF a.checkInTime # 0 THEN a.checkInTime
                      ELSE a.date * MinutesPerDay
                tb == IF b.checkInTime # 0 THEN b.checkInTime
                      ELSE b.date * MinutesPerDay
            IN  ta >= tb

\* C11 witness: an admin filtered by department and by month and is shown
\* two records of different check-in times
C11_Witness ==
    /\ user.role = "admin"
    /\ histPc = "done"
    /\ selectedDept = "Eng"
    /\ filter = "month"
    /\ Len(filteredHistory) = 2
    /\ filteredHistory[1].checkInTime > filteredHistory[2].checkInTime

\* the first day of month m in the calendar of the model
RECURSIVE MonthStart(_)
MonthStart(m) ==
    IF m <= 1 THEN 0 ELSE MonthStart(m - 1) + MonthLengths[m - 1]

\* the instant with the same day number and time of day one calendar month
\* before `now` (day numbers past the end of that month run on into the next)
OneMonthBefore(now, z) ==
    LET day == LocalDate(now, z)
        m == MonthOfDay(day, 1)
        dayOfMonth == day - MonthStart(m)
        start == IF m = 1 THEN 0 - 28 ELSE MonthStart(m - 1)
    IN  now - (day - (start + dayOfMonth)) * MinutesPerDay

\* C12: for an admin with a department D selected, the list under 'week' is
\* exactly the fetched records of department D checked in within the 7 days
\* up to now, and under 'month' those within the calendar month up to now
C12_DepartmentAndPeriod ==
    (/\ user.role = "admin"
     /\ histPc = "done"
     /\ selectedDept # "All"
     /\ filter \in {"week", "month"}) =>
        LET from == IF filter = "week" THEN clock - 7 * MinutesPerDay
                    ELSE OneMonthBefore(clock, tz)
        IN  filteredHistory =
                SelectSeq(attendanceHistory,
                          LAMBDA rec : /\ rec.department = selectedDept
                                       /\ rec.checkInTime >= from
                                       /\ rec.checkInTime <= clock)

\* C12 witness: the admin filters department Eng by week while the fetched
\* list holds an Eng record checked in more than 7 days ago; the one record
\* left is the Eng record of the last 7 days
C12_Witness ==
    /\ user.role = "admin"
    /\ histPc = "done"
    /\ selectedDept = "Eng"
    /\ filter = "week"
    /\ Len(filteredHistory) = 1
    /\ filteredHistory[1].checkInTime >= clock - 7 * MinutesPerDay
    /\ \E i \in 1..Len(attendanceHistory) :
          /\ attendanceHistory[i].department = "Eng"
          /\ attendanceHistory[i].checkInTime < clock - 7 * MinutesPerDay

\* the entries of a list that are placeholders
PlaceholdersIn(history) ==
    {i \in 1..Len(history) : history[i].status = "No attendance recorded"}

\* C13: a fetched list holds placeholders exactly when the requester is an
\* admin, no attendance record is stored and there is an employee; then it
\* holds one placeholder for each employee and nothing else; and the query
\* never changes the store
C13_PlaceholdersOnlyForEmptyLedger ==
    /\ [](histPc = "done" =>
            LET employees == EmployeesOf(users)
                expected == /\ user.role = "admin"
                            /\ DOMAIN att = {}
                            /\ Len(employees) > 0
            IN  /\ (PlaceholdersIn(attendanceHistory) # {}) <=> expected
                /\ expected =>
                      /\ Len(attendanceHistory) = Len(employees)
                      /\ \A e \in 1..Len(employees) :
                            Cardinality(
                                {i \in PlaceholdersIn(attendanceHistory) :
                                    attendanceHistory[i].email =
                                        employees[e].email}) = 1)
    /\ [][histPc' # histPc \/ attendanceHistory' # attendanceHistory =>
              UNCHANGED storeVars]_vars

\* C13 witness: an admin fetched from an empty ledger and is shown the two
\* employees' placeholders
C13_Witness ==
    /\ user.role = "admin"
    /\ histPc = "done"
    /\ DOMAIN att = {}
    /\ Cardinality(PlaceholdersIn(attendanceHistory)) = 2

----------------------------------------------------------------------------
(* Registration and invitations on one device *)

\* what is typed into the register form
FormInputs ==
    [email |-> {"e3"}, password |-> {"p"}, confirmPassword |-> {"p", "q"},
     name |-> {"N"}, department |-> {"Eng"}, inviteToken |-> {0, 1, 9}]

InitReg ==
    /\ users = checkStoredUsers(<< >>)
    /\ att = << >>
    /\ employeeLocations = [e \in Employees |-> NoSnapshot]
    /\ user = NoUser
    /\ home = "off"
    /\ locationStatus = "unknown"
    /\ attendanceStatus = "null"
    /\ fetchingLocation = FALSE
    /\ notice = "none"
    /\ ha = IdleCall
    /\ rl = IdleCall
    /\ clock = StartClock
    /\ tz = 0
    /\ position = PtC
    /\ IdleHistory
    /\ IdleEvaluator
    /\ IdleAccounts

NextReg ==
    \/ \E e \in {"admin", "e3"} : Login(e)
    \/ Logout
    \/ \E o \in {"denied", "failed", "ok"} : initializeScreen(o)
    \/ mountProfile
    \/ openInviteModal
    \/ closeInviteModal
    \/ \E text \in InviteEmails : setInviteEmail(text)
    \/ \E ok \in BOOLEAN : handleInviteAdmin(ok)
    \/ navigateToRegister
    \/ navigateToLogin
    \/ \E field \in DOMAIN FormInputs :
          \E value \in FormInputs[field] : updateFormField(field, value)
    \/ setHasInvitation
    \/ handleRegister
    \/ \E o \in {"storeFailed", "ok"} : registerSettled(o)
    \/ Restart
    \/ resetStoredData
    \/ ForceClearStorage
    \/ DebugStorage
    \/ \E d \in DaySteps : Elapse(d)

SpecReg == InitReg /\ [][NextReg]_vars

\* the accounts that registered as admins
RegisteredAdmins ==
    {i \in 1..Len(users) : users[i].role = "admin" /\ users[i].id # "admin"}

\* C14: a registration that presents a token which is not a stored
\* invitation, is already used or is past its 48 hours fails and stores no
\* account; and there are never more registered admins than used tokens
C14_TokenGrantsAdminOnce ==
    /\ [](Cardinality(RegisteredAdmins) <=
            Cardinality({t \in 1..Len(invitations) : invitations[t].used}))
    /\ [][(/\ auth.pc = "registering"
           /\ auth'.pc # "registering"
           /\ auth.hasInvitation
           /\ LET t == auth.formState.inviteToken
              IN  \/ t \notin 1..Len(invitations)
                  \/ invitations[t].used
                  \/ clock > invitations[t].expiresAt) =>
              (/\ users' = users
               /\ user' = NoUser
               /\ notice' = "Registration Failed")]_vars

\* C14 witness: a token was consumed by the registration of an admin, and a
\* later registration presenting it has failed
C14_Witness ==
    /\ Cardinality(RegisteredAdmins) = 1
    /\ auth.screen = "register"
    /\ auth.pc = "idle"
    /\ auth.hasInvitation
    /\ auth.formState.inviteToken \in 1..Len(invitations)
    /\ invitations[auth.formState.inviteToken].used
    /\ notice = "Registration Failed"

\* C15: handleRegister hands register the typed token exactly when the box
\* is ticked (and the token field is not empty), no token otherwise, and a
\* profile of name and department only; a registration without a token
\* stores an employee account
C15_NoTokenMakesEmployee ==
    /\ [][(auth.pc = "idle" /\ auth'.pc = "registering") =>
              (/\ auth'.call.token =
                      (IF auth.hasInvitation /\ auth.formState.inviteToken # 0
                       THEN [given |-> TRUE,
                             text |-> auth.formState.inviteToken]
                       ELSE [given |-> FALSE, text |-> 0])
               /\ DOMAIN auth'.call.profile = {"name", "department"})]_vars
    /\ [][(/\ auth.pc = "registering"
           /\ ~auth.hasInvitation
           /\ users' # users) =>
              (/\ Len(users') = Len(users) + 1
               /\ SubSeq(users', 1, Len(users)) = users
               /\ users'[Len(users')].role = "employee")]_vars

\* C15 witness: a token was typed, the box is no longer ticked, and the
\* registration in flight carries no token
C15_Witness ==
    /\ auth.pc = "registering"
    /\ ~auth.hasInvitation
    /\ auth.formState.inviteToken # 0
    /\ ~auth.call.token.given

\* the users of the store are still stored after the step
UsersKept ==
    \A i \in 1..Len(users) :
        \E j \in 1..Len(users') : users'[j].id = users[i].id

\* C20 as claimed: no step removes a user record from the users store
C20_UserNeverDeleted == [][UsersKept]_vars

\* C20 as amended: only 'Reset App Data' and 'Force Clear Storage' remove
\* user records; no other step does
C20_OnlyResetAndClearDelete ==
    [][UsersKept \/ resetStoredData \/ ForceClearStorage]_vars

\* C20 witness: 'Debug Storage' ran over a store that holds a registered
\* user beside the admin
C20_Witness ==
    /\ Len(users) >= 2
    /\ notice = "Debug Complete"

\* C21: the users store never holds two user records with the same email
C21_OneUserPerEmail ==
    \A i, j \in 1..Len(users) : users[i].email = users[j].email => i = j


----------------------------------------------------------------------------
(* Role requests and invitations on one device *)

\* the permission tables the workflow is checked under
GrantTables == [Roles -> SUBSET {AssignRoles}]

InitRole ==
    /\ users = InitialUsers(NoLocation, NoLocation)
    /\ att = << >>
    /\ employeeLocations = [e \in Employees |-> NoSnapshot]
    /\ user = NoUser
    /\ home = "off"
    /\ locationStatus = "unknown"
    /\ attendanceStatus = "null"
    /\ fetchingLocation = FALSE
    /\ notice = "none"
    /\ ha = IdleCall
    /\ rl = IdleCall
    /\ clock = StartClock
    /\ tz = 0
    /\ position = PtC
    /\ IdleHistory
    /\ IdleEvaluator
    /\ invitations = << >>
    /\ grants \in GrantTables
    /\ auth = IdleAuth
    /\ profile = IdleProfile
    /\ rejectedAt = << >>

NextRole ==
    \/ \E e \in Emails : Login(e)
    \/ Logout
    \/ \E o \in {"denied", "failed", "ok"} : initializeScreen(o)
    \/ mountProfile
    \/ refreshUser
    \/ \E ok \in BOOLEAN : handleRequestAdminRole(ok)
    \/ \E ok \in BOOLEAN : openRoleRequests(ok)
    \/ closeRoleRequests
    \/ \E id \in Employees, ok \in BOOLEAN : handleApproveRequest(id, ok)
    \/ \E id \in Employees : handleRejectRequest(id)
    \/ openInviteModal
    \/ closeInviteModal
    \/ \E text \in InviteEmails : setInviteEmail(text)
    \/ \E ok \in BOOLEAN : handleInviteAdmin(ok)
    \/ \E d \in DaySteps : Elapse(d)

SpecRole == InitRole /\ [][NextRole]_vars

\* C16: an employee whose request an admin rejected submits no request
\* while less than 24 hours have passed since the rejection; and when the
\* employee opens the profile screen 24 hours or more after the rejection,
\* the request item is offered and a request is allowed
C16_CooldownAfterRejection ==
    /\ [][(/\ user.id \in DOMAIN rejectedAt
           /\ clock - rejectedAt[user.id] < RequestCooldown
           /\ user.role = "employee") =>
              ~(handleRequestAdminRole(TRUE) /\ profile.canRequest)]_vars
    /\ [][(/\ user.role = "employee"
           /\ user.id \in DOMAIN rejectedAt
           /\ clock - rejectedAt[user.id] >= RequestCooldown
           /\ ~profile.mounted
           /\ profile'.mounted) =>
              (/\ ~profile'.hasRequestedAdmin
               /\ profile'.canRequest)]_vars

\* C17: when an admin rejects a request, the requester's stored record has
\* its roleChangeRequested flag cleared and the time of the rejection
\* recorded
C17_RejectionIsStored ==
    [][\A id \in Employees :
          handleRejectRequest(id) =>
              \E i \in 1..Len(users') :
                  /\ users'[i].id = id
                  /\ ~users'[i].roleChangeRequested
                  /\ users'[i].lastRejection = clock]_vars

\* C18: a successful approval leaves the named user an admin with the
\* request flag cleared, every other user as stored, and the request off
\* the admin's list; a failed approval leaves store and list as they were;
\* approving a user who is already an admin without a pending request
\* changes nothing in the store
C18_ApprovalPromotesOnce ==
    /\ [][\A id \in Employees :
            /\ handleApproveRequest(id, TRUE) =>
                  /\ Len(users') = Len(users)
                  /\ \A i \in 1..Len(users) :
                        IF users[i].id = id
                        THEN users'[i] =
                                 [users[i] EXCEPT
                                     !.role = "admin",
                                     !.roleChangeRequested = FALSE]
                        ELSE users'[i] = users[i]
                  /\ id \notin Range(profile'.roleRequests)
            /\ handleApproveRequest(id, FALSE) =>
                  /\ users' = users
                  /\ profile'.roleRequests = profile.roleRequests]_vars
    /\ [](\A i \in 1..Len(users) :
            (users[i].role = "admin" /\ ~users[i].roleChangeRequested) =>
                approveRoleRequest(users, users[i].id) = users)

\* C18 witness: the admin approved e1's request: e1 is stored as an admin
\* without the flag and is off the list on the screen
C18_Witness ==
    /\ user.role = "admin"
    /\ profile.requestsModal
    /\ notice = "Success"
    /\ "e1" \notin Range(profile.roleRequests)
    /\ \E i \in 1..Len(users) :
          /\ users[i].id = "e1"
          /\ users[i].role = "admin"
          /\ ~users[i].roleChangeRequested

\* C19: the invite modal is open, a generated token is on the screen, or an
\* invitation is being stored, only for a logged-in admin whose role holds
\* the assign:roles permission
C19_OnlyPermittedAdminInvites ==
    /\ []((profile.inviteModal \/ profile.generatedToken # 0) =>
            (/\ user.role = "admin"
             /\ AssignRoles \in grants["admin"]))
    /\ [][invitations' # invitations =>
            (/\ user.role = "admin"
             /\ AssignRoles \in grants["admin"])]_vars

\* C19 witness: an admin generated an invitation while the employees' role
\* holds no permission
C19_Witness ==
    /\ user.role = "admin"
    /\ profile.generatedToken # 0
    /\ Len(invitations) = 1
    /\ grants["employee"] = {}

----------------------------------------------------------------------------
(* The writers of the users store on one device *)

InitUsers ==
    /\ \E al1, al2 \in {NoLocation, LegacyLocation} :
          users = InitialUsers(al1, al2)
    /\ att = << >>
    /\ employeeLocations = [e \in Employees |-> NoSnapshot]
    /\ user = NoUser
    /\ home = "off"
    /\ locationStatus = "unknown"
    /\ attendanceStatus = "null"
    /\ fetchingLocation = FALSE
    /\ notice = "none"
    /\ ha = IdleCall
    /\ rl = IdleCall
    /\ clock = StartClock
    /\ tz = 0
    /\ position = PtC
    /\ IdleHistory
    /\ IdleEvaluator
    /\ IdleAccounts

NextUsers ==
    \/ \E e \in Emails : Login(e)
    \/ Logout
    \/ \E o \in {"denied", "failed", "ok"} : initializeScreen(o)
    \/ cleanupDefaultOffice
    \/ cleanupDefaultOfficeWrite
    \/ refreshUser
    \/ \E sel \in {"none", "e1", "e2"}, form \in GeofenceInputs :
          handleSaveGeofence(sel, form)
    \/ \E ok \in BOOLEAN : handleSaveGeofenceWrite(ok)
    \/ DebugStorage

SpecUsers == InitUsers /\ [][NextUsers]_vars

\* the stored users that hold a location assigned through the geofence form
\* (its coordinates are the texts typed)
AssignedByForm ==
    {i \in 1..Len(users) : users[i].assignedLocation.latitude.k = "str"}

\* C25: a write to the users store replaces the whole collection by what
\* its writer read, changed by that writer alone: after the write of
\* handleSaveGeofence every user but the selected one is as it was read, and
\* after the write of cleanupDefaultOffice every user is as it was read with
\* the default office removed; whatever was stored between the read and the
\* write is gone
C25_WritesReplaceWholeCollection ==
    [][/\ handleSaveGeofenceWrite(TRUE) =>
             LET read == profile.save.users
             IN  /\ Len(users') = Len(read)
                 /\ \A i \in 1..Len(read) :
                       IF read[i].email = profile.save.email
                       THEN /\ users'[i].assignedLocation.latitude =
                                   profile.save.form.latitude
                            /\ users'[i].assignedLocation.radius =
                                   profile.save.form.radius
                       ELSE users'[i] = read[i]
       /\ cleanupDefaultOfficeWrite =>
             LET read == profile.cleanup.users
             IN  /\ Len(users') = Len(read)
                 /\ \A i \in 1..Len(read) :
                       IF IsDefaultOffice(read[i].assignedLocation)
                       THEN users'[i].assignedLocation = EmptyLocation
                       ELSE users'[i] = read[i]]_vars

\* C25 witness: the alert of a completed geofence assignment is on the
\* screen, nothing is in flight any more, and no stored user holds an
\* assigned geofence: the write of a cleanupDefaultOffice that had read the
\* store before the assignment has undone it
C25_Witness ==
    /\ notice = "Geofence assigned"
    /\ profile.save.pc = "idle"
    /\ profile.cleanup.pc = "idle"
    /\ AssignedByForm = {}

\* the three numbers of an assigned location parse
ParsesToNumbers(al) ==
    /\ ~isNaN(parseFloat(al.latitude))
    /\ ~isNaN(parseFloat(al.longitude))
    /\ ~isNaN(parseFloat(al.radius))

FormAccepted(form, hasInvitation) ==
    /\ form.email # ""
    /\ form.password # ""
    /\ form.confirmPassword # ""
    /\ form.name # ""
    /\ form.department # ""
    /\ form.password = form.confirmPassword
    /\ hasInvitation => form.inviteToken # 0

ValidationNotices == {"Missing Information", "Password Mismatch",
                      "Token Required"}

\* C28: handleRegister calls register exactly when the five fields are
\* filled, the two passwords are equal and, with the invitation box ticked,
\* the token is filled; otherwise it shows a notice, no call of register is
\* in flight and the users store is as it was
C28_RegisterOnlyValidForm ==
    [][handleRegister =>
          /\ users' = users
          /\ IF FormAccepted(auth.formState, auth.hasInvitation)
             THEN /\ auth'.pc = "registering"
                  /\ auth'.call.email = auth.formState.email
                  /\ auth'.call.password = auth.formState.password
             ELSE /\ auth'.pc = "idle"
                  /\ auth'.call = NoCall
                  /\ notice' \in ValidationNotices]_vars

\* C28 witness: the form is filled but the passwords differ, handleRegister
\* answered with 'Password Mismatch', no call is in flight and no account
\* beyond the first start's was stored
C28_Witness ==
    /\ auth.screen = "register"
    /\ auth.pc = "idle"
    /\ auth.formState.email # ""
    /\ auth.formState.name # ""
    /\ auth.formState.department # ""
    /\ auth.formState.password = "p"
    /\ auth.formState.confirmPassword = "q"
    /\ notice = "Password Mismatch"
    /\ users = checkStoredUsers(<< >>)

\* today's stored record of the current user is open: it exists and has no
\* check-out
OpenRecordToday ==
    LET key == AttendanceKey(user.email, ISODate(clock))
    IN  HasItem(att, key) /\ ~att[key].hasCheckOut

\* C29: on an employee's home screen with no handleAttendance in flight,
\* attendanceStatus is true exactly when today's record is stored and has no
\* check-out
C29_StatusAgreesWithStore ==
    (/\ home = "shown"
     /\ user.role = "employee"
     /\ ha.pc = "idle") =>
        (attendanceStatus = "true" <=> OpenRecordToday)

\* the location handleSaveGeofence builds from the form
FormLocation(form) ==
    [present |-> TRUE, name |-> form.name, latitude |-> form.latitude,
     longitude |-> form.longitude, radius |-> form.radius]

----------------------------------------------------------------------------
(* Failures and their notices *)

\* a step in which a user-initiated action fails: the position query, a
\* store operation or a call into the AuthContext throws
FailedAction ==
    \/ handleAttendanceLocated(FALSE)
    \/ handleAttendanceWrite("readFailed")
    \/ handleAttendanceWrite("writeFailed")
    \/ refreshLocationEnd(FALSE)
    \/ fetchHistory(FALSE)
    \/ registerSettled("storeFailed")
    \/ handleInviteAdmin(FALSE)
    \/ handleRequestAdminRole(FALSE)
    \/ openRoleRequests(FALSE)
    \/ \E id \in Employees : handleApproveRequest(id, FALSE)

\* the titles of the alerts that report a failure
FailureNotices == {"Error", "Registration Failed", "Cannot Request Yet"}

\* C23: every failure of a user-initiated action ends with a notice on the
\* screen
C23_FailureShowsNotice == [][FailedAction => notice' \in FailureNotices]_vars

====
